---------------------------- MODULE Spec2Model ----------------------------
(* Model of asset-transfer-basic/application-javascript/app.js: the        *)
(* driver main(), its module-level configuration and prettyJSONString.     *)
(* One action per awaited call of main(); the synchronous code that        *)
(* follows an await up to the next call belongs to the action of the       *)
(* awaited call.  Every external call either returns or throws.            *)
EXTENDS Integers, Sequences, FiniteSets, TLC

(* ------------------------------ bounds -------------------------------- *)
MaxRuns == 2            \* successive executions of `node app.js`
MaxPayloadLen == 2      \* length of a transaction result payload

(* --------------------------- program literals -------------------------- *)
mspOrg1 == "Org1MSP"
org1UserId == "javascriptAppUser"
adminUserId == "admin"
walletPath == "wallet"
caHostName == "ca.org1.example.com"
affiliation == "org1.department1"

EnvNames == {"CHANNEL_NAME", "CHAINCODE_NAME"}
EnvStrings == {"", "a", "b"}
\* process.env restricted to the two variables read: a name is set iff it
\* is in the domain; a set variable holds a string, possibly the empty one
Environments == UNION {[S -> EnvStrings] : S \in SUBSET EnvNames}

\* JavaScript `process.env.X || d`: d when X is undefined or falsy ("")
OrDefault(e, name, d) ==
    IF name \in DOMAIN e /\ e[name] # "" THEN e[name] ELSE d

channelName(e) == OrDefault(e, "CHANNEL_NAME", "mychannel")

chaincodeNameFromChannel(e) == OrDefault(e, "CHANNEL_NAME", "basic")
chaincodeName(e) == OrDefault(e, "CHAINCODE_NAME", "basic")

(* ------------------------- prettyJSONString ---------------------------- *)
PayloadChars == {"[", "]", "1", "x"}
Payloads == UNION {[1..n -> PayloadChars] : n \in 0..MaxPayloadLen}

\* JSON.parse on payloads over PayloadChars: a value is a number (a
\* non-empty run of digits) or an array holding nothing or one value
RECURSIVE JSONParses(_)
JSONParses(s) ==
    /\ Len(s) >= 1
    /\ \/ \A i \in 1..Len(s) : s[i] = "1"
       \/ /\ Len(s) >= 2
          /\ s[1] = "["
          /\ s[Len(s)] = "]"
          /\ \/ Len(s) = 2
             \/ JSONParses(SubSeq(s, 2, Len(s) - 1))

\* TRUE iff prettyJSONString(inputString) throws (SyntaxError of JSON.parse)
prettyJSONStringNeverThrows(inputString) == FALSE
prettyJSONStringThrows(inputString) == ~JSONParses(inputString)

(* ----------------------- the five Transfer calls ----------------------- *)
TransferArgsSwapped ==
    << <<"1a677a3795f8a24b5dd99f83ea31f87595e25db1",
         "18f1b4386f2e19e7dbf169ab2469c8fa8bc02976", "1000000">>,
       <<"7cafb40b30e8f7f0c8f57393e2ea63ff58a95907",
         "f5c705db130ec0cbda536bfacc8e38425b427862", "7500000">>,
       <<"0a8077182848001f47826e249f5d8e821ea263bd",
         "1a677a3795f8a24b5dd99f83ea31f87595e25db1", "100000">>,
       <<"1a677a3795f8a24b5dd99f83ea31f87595e25db1",
         "b284bea203a5c7e0fbae062650c067297579106a", "129000000">>,
       <<"78e15f1699dbb6c8a438e90c02044cfa9b9233f3",
         "17732863dbd50ee07039048d05d1a144297492b2", "220000000">> >>
TransferArgs ==
    << <<"7cafb40b30e8f7f0c8f57393e2ea63ff58a95907",
         "f5c705db130ec0cbda536bfacc8e38425b427862", "7500000">>,
       <<"1a677a3795f8a24b5dd99f83ea31f87595e25db1",
         "18f1b4386f2e19e7dbf169ab2469c8fa8bc02976", "1000000">>,
       <<"0a8077182848001f47826e249f5d8e821ea263bd",
         "1a677a3795f8a24b5dd99f83ea31f87595e25db1", "100000">>,
       <<"1a677a3795f8a24b5dd99f83ea31f87595e25db1",
         "b284bea203a5c7e0fbae062650c067297579106a", "129000000">>,
       <<"78e15f1699dbb6c8a438e90c02044cfa9b9233f3",
         "17732863dbd50ee07039048d05d1a144297492b2", "220000000">> >>

(* -------------------------------- state -------------------------------- *)
VARIABLES
    run,            \* number of the current execution of the driver
    pc,             \* position of main()
    env,            \* process.env of the current execution
    wallet,         \* labels stored in the wallet directory (persistent)
    walletAtStart,  \* wallet when the current execution started
    enrolled,       \* label -> successful CA enrollments over all runs
    caRequests,     \* labels sent to the CA in the current execution
    calls,          \* calls made by main() in the current execution
    completed,      \* steps that returned normally, in order
    gateway,        \* "none", "created", "connected" or "disconnected"
    pending,        \* an exception is propagating
    failed,         \* what threw in the current execution, in order
    result,         \* `let result`: payload of the last Transfer
    exitCode,       \* process exit status, -1 while running
    errLogged       \* console.error calls of the catch block

vars == <<run, pc, env, wallet, walletAtStart, enrolled, caRequests, calls,
          completed, gateway, pending, failed, result, exitCode, errLogged>>

Labels == {adminUserId, org1UserId}

Call(fn, args) == [fn |-> fn, args |-> args]
Submit(name, args) == Call("submitTransaction", <<name>> \o args)

\* the call is made and recorded
Invoke(c) == calls' = Append(calls, c)
\* the call returned normally and main() goes on to `next`
Returns(step, next) ==
    /\ completed' = Append(completed, step)
    /\ pc' = next
    /\ UNCHANGED pending
    /\ UNCHANGED failed
\* `what` threw and control goes to the enclosing handler
Throws(what, handler) ==
    /\ failed' = Append(failed, what)
    /\ pc' = handler
    /\ pending' = TRUE
    /\ UNCHANGED completed

Init ==
    /\ run = 1
    /\ pc = "buildCCPOrg1"
    /\ env \in Environments
    /\ wallet = {}
    /\ walletAtStart = {}
    /\ enrolled = [l \in Labels |-> 0]
    /\ caRequests = <<>>
    /\ calls = <<>>
    /\ completed = <<>>
    /\ gateway = "none"
    /\ pending = FALSE
    /\ failed = <<>>
    /\ result = <<>>
    /\ exitCode = -1
    /\ errLogged = 0

(* ------------------- CAUtil.js (outside this module) ------------------- *)
\* Enrollment of `label`: an identity already in the wallet is left alone
\* and the CA is not contacted; otherwise the CA is asked, and the identity
\* is stored in the wallet when the CA accepts.
CAEnrollNoCheck(label, returns, throws) ==
    /\ caRequests' = Append(caRequests, label)
    /\ \/ /\ wallet' = wallet \cup {label}
          /\ enrolled' = [enrolled EXCEPT ![label] = @ + 1]
          /\ returns
       \/ /\ UNCHANGED <<wallet, enrolled>>
          /\ throws
CAEnroll(label, returns, throws) ==
    IF label \in wallet
    THEN /\ UNCHANGED <<wallet, enrolled, caRequests>>
         /\ returns
    ELSE /\ caRequests' = Append(caRequests, label)
         /\ \/ /\ wallet' = wallet \cup {label}
               /\ enrolled' = [enrolled EXCEPT ![label] = @ + 1]
               /\ returns
            \/ /\ UNCHANGED <<wallet, enrolled>>
               /\ throws

(* ------------------------------- main() -------------------------------- *)
\* const ccp = buildCCPOrg1();
buildCCPOrg1 ==
    /\ pc = "buildCCPOrg1"
    /\ Invoke(Call("buildCCPOrg1", <<>>))
    /\ \/ Returns("buildCCPOrg1", "buildCAClient")
       \/ Throws("buildCCPOrg1", "catch")
    /\ UNCHANGED <<run, env, wallet, walletAtStart, enrolled, caRequests,
                   gateway, result, exitCode, errLogged>>

\* const caClient = buildCAClient(FabricCAServices, ccp, 'ca.org1.example.com');
buildCAClient ==
    /\ pc = "buildCAClient"
    /\ Invoke(Call("buildCAClient", <<caHostName>>))
    /\ \/ Returns("buildCAClient", "buildWallet")
       \/ Throws("buildCAClient", "catch")
    /\ UNCHANGED <<run, env, wallet, walletAtStart, enrolled, caRequests,
                   gateway, result, exitCode, errLogged>>

\* const wallet = await buildWallet(Wallets, walletPath);
buildWallet ==
    /\ pc = "buildWallet"
    /\ Invoke(Call("buildWallet", <<walletPath>>))
    /\ \/ Returns("buildWallet", "enrollAdmin")
       \/ Throws("buildWallet", "catch")
    /\ UNCHANGED <<run, env, wallet, walletAtStart, enrolled, caRequests,
                   gateway, result, exitCode, errLogged>>

\* await enrollAdmin(caClient, wallet, mspOrg1);
enrollAdmin ==
    /\ pc = "enrollAdmin"
    /\ Invoke(Call("enrollAdmin", <<mspOrg1>>))
    /\ CAEnroll(adminUserId,
                Returns("enrollAdmin", "registerAndEnrollUser"),
                Throws("enrollAdmin", "catch"))
    /\ UNCHANGED <<run, env, walletAtStart, gateway, result, exitCode,
                   errLogged>>

\* await registerAndEnrollUser(...); const gateway = new Gateway(); try {
registerAndEnrollUserSwallows ==
    /\ pc = "registerAndEnrollUser"
    /\ Invoke(Call("registerAndEnrollUser", <<mspOrg1, org1UserId, affiliation>>))
    /\ \/ /\ CAEnroll(org1UserId,
                      Returns("registerAndEnrollUser", "connect"),
                      Throws("registerAndEnrollUser", "catch"))
          /\ gateway' = IF pc' = "connect" THEN "created" ELSE gateway
       \/ /\ failed' = Append(failed, "registerAndEnrollUser")
          /\ pc' = "connect"
          /\ gateway' = "created"
          /\ UNCHANGED <<wallet, enrolled, caRequests, completed, pending>>
    /\ UNCHANGED <<run, env, walletAtStart, result, exitCode, errLogged>>
registerAndEnrollUser ==
    /\ pc = "registerAndEnrollUser"
    /\ Invoke(Call("registerAndEnrollUser", <<mspOrg1, org1UserId, affiliation>>))
    /\ CAEnroll(org1UserId,
                Returns("registerAndEnrollUser", "connect"),
                Throws("registerAndEnrollUser", "catch"))
    /\ gateway' = IF pc' = "connect" THEN "created" ELSE gateway
    /\ UNCHANGED <<run, env, walletAtStart, result, exitCode, errLogged>>

\* await gateway.connect(ccp, {wallet, identity: org1UserId, discovery});
connectRetriesOnce ==
    /\ pc = "connect"
    /\ Invoke(Call("connect", <<org1UserId>>))
    /\ \/ /\ Returns("connect", "getNetwork")
          /\ gateway' = "connected"
       \/ /\ IF failed = <<>>
             THEN /\ failed' = Append(failed, "connect")
                  /\ UNCHANGED <<pc, pending, completed>>
             ELSE Throws("connect", "finally")
          /\ UNCHANGED gateway
    /\ UNCHANGED <<run, env, wallet, walletAtStart, enrolled, caRequests,
                   result, exitCode, errLogged>>
connect ==
    /\ pc = "connect"
    /\ Invoke(Call("connect", <<org1UserId>>))
    /\ \/ /\ Returns("connect", "getNetwork")
          /\ gateway' = "connected"
       \/ /\ Throws("connect", "finally")
          /\ UNCHANGED gateway
    /\ UNCHANGED <<run, env, wallet, walletAtStart, enrolled, caRequests,
                   result, exitCode, errLogged>>

\* const network = await gateway.getNetwork(channelName);
getNetwork ==
    /\ pc = "getNetwork"
    /\ Invoke(Call("getNetwork", <<channelName(env)>>))
    /\ \/ Returns("getNetwork", "getContract")
       \/ Throws("getNetwork", "finally")
    /\ UNCHANGED <<run, env, wallet, walletAtStart, enrolled, caRequests,
                   gateway, result, exitCode, errLogged>>

\* const contract = network.getContract(chaincodeName);
getContract ==
    /\ pc = "getContract"
    /\ Invoke(Call("getContract", <<chaincodeName(env)>>))
    /\ \/ Returns("getContract", "InitLedger")
       \/ Throws("getContract", "finally")
    /\ UNCHANGED <<run, env, wallet, walletAtStart, enrolled, caRequests,
                   gateway, result, exitCode, errLogged>>

\* await contract.submitTransaction('InitLedger');
InitLedgerIgnoresRejection ==
    /\ pc = "InitLedger"
    /\ Invoke(Submit("InitLedger", <<>>))
    /\ \/ Returns("InitLedger", "Transfer")
       \/ /\ failed' = Append(failed, "InitLedger")
          /\ pc' = "Transfer"
          /\ UNCHANGED <<completed, pending>>
    /\ UNCHANGED <<run, env, wallet, walletAtStart, enrolled, caRequests,
                   gateway, result, exitCode, errLogged>>
InitLedger ==
    /\ pc = "InitLedger"
    /\ Invoke(Submit("InitLedger", <<>>))
    /\ \/ Returns("InitLedger", "Transfer")
       \/ Throws("InitLedger", "finally")
    /\ UNCHANGED <<run, env, wallet, walletAtStart, enrolled, caRequests,
                   gateway, result, exitCode, errLogged>>

\* Transfer submissions that resolved in the current execution
TransfersAccepted == Len(SelectSeq(completed, LAMBDA c : c = "Transfer"))

\* result = await contract.submitTransaction('Transfer', from, to, amount);
\* console.log(`*** Result: ${prettyJSONString(result)}`);      (five times)
TransferSwallowsRejection ==
    /\ pc = "Transfer"
    /\ Invoke(Submit("Transfer", TransferArgs[TransfersAccepted + 1]))
    /\ \/ \E r \in Payloads :
             /\ result' = r
             /\ completed' = Append(completed, "Transfer")
             /\ IF prettyJSONStringThrows(r)
                THEN /\ failed' = Append(failed, "prettyJSONString")
                     /\ pending' = TRUE
                     /\ pc' = "finally"
                ELSE /\ UNCHANGED <<failed, pending>>
                     /\ pc' = IF TransfersAccepted + 1 < Len(TransferArgs)
                              THEN "Transfer" ELSE "finally"
       \/ /\ failed' = Append(failed, "Transfer")
          /\ completed' = Append(completed, "Transfer")
          /\ pc' = IF TransfersAccepted + 1 < Len(TransferArgs)
                   THEN "Transfer" ELSE "finally"
          /\ UNCHANGED <<result, pending>>
    /\ UNCHANGED <<run, env, wallet, walletAtStart, enrolled, caRequests,
                   gateway, exitCode, errLogged>>
Transfer ==
    /\ pc = "Transfer"
    /\ Invoke(Submit("Transfer", TransferArgs[TransfersAccepted + 1]))
    /\ \/ \E r \in Payloads :
             /\ result' = r
             /\ completed' = Append(completed, "Transfer")
             /\ IF prettyJSONStringThrows(r)
                THEN /\ failed' = Append(failed, "prettyJSONString")
                     /\ pending' = TRUE
                     /\ pc' = "finally"
                ELSE /\ UNCHANGED <<failed, pending>>
                     /\ pc' = IF TransfersAccepted + 1 < Len(TransferArgs)
                              THEN "Transfer" ELSE "finally"
       \/ /\ Throws("Transfer", "finally")
          /\ UNCHANGED result
    /\ UNCHANGED <<run, env, wallet, walletAtStart, enrolled, caRequests,
                   gateway, exitCode, errLogged>>

\* } finally { gateway.disconnect(); }  and, with nothing thrown, the end of
\* main(): the process ends with status 0
disconnectOnlyOnSuccess ==
    /\ pc = "finally"
    /\ IF pending
       THEN /\ pc' = "catch"
            /\ UNCHANGED <<calls, gateway, completed, failed, pending,
                           exitCode>>
       ELSE /\ Invoke(Call("disconnect", <<>>))
            /\ gateway' = "disconnected"
            /\ \/ /\ completed' = Append(completed, "disconnect")
                  /\ UNCHANGED <<failed, pending>>
                  /\ pc' = "exited"
                  /\ exitCode' = 0
               \/ /\ Throws("disconnect", "catch")
                  /\ UNCHANGED exitCode
    /\ UNCHANGED <<run, env, wallet, walletAtStart, enrolled, caRequests,
                   result, errLogged>>
disconnect ==
    /\ pc = "finally"
    /\ Invoke(Call("disconnect", <<>>))
    /\ gateway' = "disconnected"
    /\ \/ /\ completed' = Append(completed, "disconnect")
          /\ UNCHANGED <<failed, pending>>
          /\ IF pending
             THEN pc' = "catch" /\ UNCHANGED exitCode
             ELSE pc' = "exited" /\ exitCode' = 0
       \/ /\ Throws("disconnect", "catch")
          /\ UNCHANGED exitCode
    /\ UNCHANGED <<run, env, wallet, walletAtStart, enrolled, caRequests,
                   result, errLogged>>

\* } catch (error) { console.error(...); process.exit(1); }
catchWithoutExit ==
    /\ pc = "catch"
    /\ errLogged' = errLogged + 1
    /\ exitCode' = 0
    /\ pc' = "exited"
    /\ UNCHANGED <<run, env, wallet, walletAtStart, enrolled, caRequests,
                   calls, completed, gateway, pending, failed, result>>
catch ==
    /\ pc = "catch"
    /\ errLogged' = errLogged + 1
    /\ exitCode' = 1
    /\ pc' = "exited"
    /\ UNCHANGED <<run, env, wallet, walletAtStart, enrolled, caRequests,
                   calls, completed, gateway, pending, failed, result>>

\* main();  -- the driver is started again; only the wallet directory (and
\* what the CA has issued) outlives the process
mainFreshWallet ==
    /\ pc = "exited"
    /\ run < MaxRuns
    /\ run' = run + 1
    /\ pc' = "buildCCPOrg1"
    /\ env' \in Environments
    /\ wallet' = {}
    /\ walletAtStart' = {}
    /\ caRequests' = <<>>
    /\ calls' = <<>>
    /\ completed' = <<>>
    /\ gateway' = "none"
    /\ pending' = FALSE
    /\ failed' = <<>>
    /\ result' = <<>>
    /\ exitCode' = -1
    /\ errLogged' = 0
    /\ UNCHANGED enrolled
main ==
    /\ pc = "exited"
    /\ run < MaxRuns
    /\ run' = run + 1
    /\ pc' = "buildCCPOrg1"
    /\ env' \in Environments
    /\ walletAtStart' = wallet
    /\ caRequests' = <<>>
    /\ calls' = <<>>
    /\ completed' = <<>>
    /\ gateway' = "none"
    /\ pending' = FALSE
    /\ failed' = <<>>
    /\ result' = <<>>
    /\ exitCode' = -1
    /\ errLogged' = 0
    /\ UNCHANGED <<wallet, enrolled>>

Next ==
    \/ buildCCPOrg1
    \/ buildCAClient
    \/ buildWallet
    \/ enrollAdmin
    \/ registerAndEnrollUser
    \/ connect
    \/ getNetwork
    \/ getContract
    \/ InitLedger
    \/ Transfer
    \/ disconnect
    \/ catch
    \/ main

Spec == Init /\ [][Next]_vars

(* ------------------------- derived quantities -------------------------- *)
Range(q) == {q[i] : i \in 1..Len(q)}
NameOf(c) == IF c.fn = "submitTransaction" THEN c.args[1] ELSE c.fn
Count(name) == Cardinality({i \in 1..Len(calls) : NameOf(calls[i]) = name})
\* argument triples of the Transfer submissions issued, in order
TransfersIssued ==
    LET t == SelectSeq(calls, LAMBDA c : NameOf(c) = "Transfer")
    IN  [i \in 1..Len(t) |-> Tail(t[i].args)]
IsPrefix(p, q) == Len(p) <= Len(q) /\ p = SubSeq(q, 1, Len(p))
Terminated == pc = "exited"

PreGatewaySteps ==
    <<"buildCCPOrg1", "buildCAClient", "buildWallet", "enrollAdmin",
      "registerAndEnrollUser">>
StepOrder ==
    PreGatewaySteps \o
    <<"connect", "getNetwork", "getContract", "InitLedger", "Transfer",
      "Transfer", "Transfer", "Transfer", "Transfer", "disconnect">>
\* the first n steps of the linear order have completed, in that order
PrefixCompleted(n) ==
    Len(completed) >= n /\ SubSeq(completed, 1, n) = SubSeq(StepOrder, 1, n)
\* position in StepOrder of the i-th call of the run
PosOf(i) ==
    IF NameOf(calls[i]) = "Transfer"
    THEN 9 + Cardinality({j \in 1..i : NameOf(calls[j]) = "Transfer"})
    ELSE CHOOSE p \in 1..Len(StepOrder) : StepOrder[p] = NameOf(calls[i])

(* -------------------------------- claims ------------------------------- *)

\* C1 (as stated): every run that has ended called gateway.disconnect()
\* exactly once, whichever step failed.
C1_DisconnectOnceInEveryRun ==
    Terminated => Count("disconnect") = 1

\* C1 (amended): gateway.disconnect() is never called twice; a run that has
\* ended called it exactly once when buildCCPOrg1, buildCAClient,
\* buildWallet, enrollAdmin and registerAndEnrollUser all completed (the
\* gateway was created), whatever failed afterwards, and not at all when one
\* of those five steps failed.
C1_DisconnectOnceIfGatewayCreated ==
    /\ Count("disconnect") <= 1
    /\ Terminated =>
          Count("disconnect") = (IF PrefixCompleted(5) THEN 1 ELSE 0)

C1_Witness ==
    /\ Terminated
    /\ PrefixCompleted(5)
    /\ "Transfer" \in Range(failed)
    /\ Count("disconnect") = 1

\* C2: once a Transfer submission has rejected, it is the last Transfer
\* issued in the run (no later one is submitted) and the run ends with
\* exit status 1.
C2_RejectedTransferEndsSequence ==
    "Transfer" \in Range(failed) =>
        /\ pc \in {"finally", "catch", "exited"}
        /\ Len(TransfersIssued) = TransfersAccepted + 1
        /\ Terminated => exitCode = 1

C2_Witness ==
    /\ Terminated
    /\ "Transfer" \in Range(failed)
    /\ Len(TransfersIssued) = 3
    /\ exitCode = 1

\* C3 (as stated): the exit status is 1 iff some step (a call of main())
\* failed, the error then being logged once; it is 0 iff every step,
\* including InitLedger and the five Transfer submissions, succeeded.
C3_ExitOneIffStepFailed ==
    Terminated =>
        /\ exitCode = 1 <=> (Range(failed) \cap Range(StepOrder) # {})
        /\ exitCode = 1 => errLogged = 1
        /\ exitCode = 0 <=> completed = StepOrder

\* C3 (amended): the exit status is 1 iff something threw, be it a step
\* (build, enrollment, connect, lookup, submission, disconnect) or
\* prettyJSONString on the result of an accepted Transfer, and then the
\* error is logged exactly once by the top-level handler; it is 0 iff
\* nothing threw, and then every step completed and nothing was logged.
C3_ExitOneIffSomethingThrew ==
    Terminated =>
        /\ exitCode \in {0, 1}
        /\ exitCode = 1 <=> failed # <<>>
        /\ exitCode = 1 => errLogged = 1
        /\ exitCode = 0 => completed = StepOrder /\ errLogged = 0

C3_Witness ==
    /\ Terminated
    /\ failed = <<"prettyJSONString">>
    /\ TransfersAccepted = 5
    /\ exitCode = 1
    /\ errLogged = 1

\* C4: a Transfer submission is issued only after the InitLedger submission
\* has completed successfully; if InitLedger rejects, no Transfer is issued.
C4_InitLedgerBeforeTransfers ==
    /\ TransfersIssued # <<>> =>
          /\ "InitLedger" \in Range(completed)
          /\ \A i \in 1..Len(calls) : \A j \in 1..Len(calls) :
                (NameOf(calls[i]) = "InitLedger" /\ NameOf(calls[j]) = "Transfer")
                    => i < j
    /\ "InitLedger" \in Range(failed) => TransfersIssued = <<>>

C4_Witness ==
    /\ Len(TransfersIssued) >= 1
    /\ "InitLedger" \in Range(completed)

\* C5 (as stated): the Transfer from 7cafb4... to f5c705... of 7500000 is
\* Transfer call #2.
C5_FirstTripleIsCallTwo ==
    Len(TransfersIssued) >= 2 =>
        TransfersIssued[2] = <<"7cafb40b30e8f7f0c8f57393e2ea63ff58a95907",
                               "f5c705db130ec0cbda536bfacc8e38425b427862",
                               "7500000">>

\* C5 (amended): the Transfer calls issued in a run are a prefix of the
\* fixed list of five triples of the source, in which the Transfer from
\* 7cafb4... to f5c705... of 7500000 is Transfer call #1 (the second
\* submitTransaction call of the run, InitLedger being the first).
C5_TransfersArePrefixOfFixedList ==
    /\ IsPrefix(TransfersIssued,
         << <<"7cafb40b30e8f7f0c8f57393e2ea63ff58a95907",
              "f5c705db130ec0cbda536bfacc8e38425b427862", "7500000">>,
            <<"1a677a3795f8a24b5dd99f83ea31f87595e25db1",
              "18f1b4386f2e19e7dbf169ab2469c8fa8bc02976", "1000000">>,
            <<"0a8077182848001f47826e249f5d8e821ea263bd",
              "1a677a3795f8a24b5dd99f83ea31f87595e25db1", "100000">>,
            <<"1a677a3795f8a24b5dd99f83ea31f87595e25db1",
              "b284bea203a5c7e0fbae062650c067297579106a", "129000000">>,
            <<"78e15f1699dbb6c8a438e90c02044cfa9b9233f3",
              "17732863dbd50ee07039048d05d1a144297492b2", "220000000">> >>)
    /\ \A i \in 1..Len(calls) :
          (NameOf(calls[i]) = "Transfer" /\ i >= 2
             /\ NameOf(calls[i - 1]) = "InitLedger")
          => calls[i].args = <<"Transfer",
                               "7cafb40b30e8f7f0c8f57393e2ea63ff58a95907",
                               "f5c705db130ec0cbda536bfacc8e38425b427862",
                               "7500000">>

C5_Witness ==
    /\ Terminated
    /\ Len(TransfersIssued) = 5
    /\ exitCode = 0

\* C6: an identity is enrolled successfully at most once over successive
\* runs that start from an empty wallet, and a run that finds both wallet
\* entries present sends no registration or enrollment to the CA.
C6_EnrollmentIdempotent ==
    /\ \A l \in Labels : enrolled[l] <= 1
    /\ walletAtStart = Labels => caRequests = <<>>

C6_Witness ==
    /\ run = 2
    /\ Terminated
    /\ walletAtStart = Labels
    /\ \A l \in Labels : enrolled[l] = 1
    /\ Count("enrollAdmin") = 1
    /\ Count("registerAndEnrollUser") = 1

\* C7: within one run no call is made twice: each step, InitLedger and each
\* of the five Transfer submissions is invoked at most once, also after a
\* failure.
C7_NoStepRetried ==
    /\ \A i \in 1..Len(calls) : \A j \in 1..Len(calls) :
          i # j => calls[i] # calls[j]
    /\ \A n \in Range(StepOrder) \ {"Transfer"} : Count(n) <= 1
    /\ Count("Transfer") <= 5

C7_Witness ==
    /\ Terminated
    /\ "connect" \in Range(failed)
    /\ Count("connect") = 1

\* C8 (as stated): getNetwork receives the value of CHANNEL_NAME when it is
\* set and "mychannel" when it is missing; getContract receives the value
\* of CHAINCODE_NAME when it is set and "basic" when it is missing.
C8_SetValueElseDefault ==
    \A i \in 1..Len(calls) :
        /\ calls[i].fn = "getNetwork" =>
              calls[i].args[1] = (IF "CHANNEL_NAME" \in DOMAIN env
                                  THEN env["CHANNEL_NAME"] ELSE "mychannel")
        /\ calls[i].fn = "getContract" =>
              calls[i].args[1] = (IF "CHAINCODE_NAME" \in DOMAIN env
                                  THEN env["CHAINCODE_NAME"] ELSE "basic")

\* C8 (amended): getNetwork receives the value of CHANNEL_NAME when it is
\* set to a non-empty string and "mychannel" when it is missing or empty;
\* getContract receives the value of CHAINCODE_NAME when it is set to a
\* non-empty string and "basic" when it is missing or empty; each fallback
\* depends on its own variable only.
C8_NonEmptyValueElseDefault ==
    \A i \in 1..Len(calls) :
        /\ calls[i].fn = "getNetwork" =>
              calls[i].args[1] =
                 (IF "CHANNEL_NAME" \in DOMAIN env /\ env["CHANNEL_NAME"] # ""
                  THEN env["CHANNEL_NAME"] ELSE "mychannel")
        /\ calls[i].fn = "getContract" =>
              calls[i].args[1] =
                 (IF "CHAINCODE_NAME" \in DOMAIN env /\ env["CHAINCODE_NAME"] # ""
                  THEN env["CHAINCODE_NAME"] ELSE "basic")

C8_Witness ==
    /\ DOMAIN env = {"CHANNEL_NAME"}
    /\ env["CHANNEL_NAME"] = "a"
    /\ Call("getNetwork", <<"a">>) \in Range(calls)
    /\ Call("getContract", <<"basic">>) \in Range(calls)

\* C9 (as stated): every step of the linear order, disconnect included, is
\* started only after every earlier step has completed successfully, and
\* nothing is called after gateway.disconnect().
C9_EveryStepAfterAllEarlier ==
    /\ \A i \in 1..Len(calls) : PrefixCompleted(PosOf(i) - 1)
    /\ \A i \in 1..Len(calls) :
          NameOf(calls[i]) = "disconnect" => i = Len(calls)

\* C9 (amended): every step other than disconnect is started only after
\* every earlier step has completed successfully (so gateway.connect is
\* attempted only after both enrollments completed); disconnect is started
\* only after the five steps before the gateway completed, whether or not
\* connect and the later steps succeeded; and no call, in particular no
\* transaction submission, is made after gateway.disconnect().
C9_LinearOrderExceptCleanup ==
    /\ \A i \in 1..Len(calls) :
          IF NameOf(calls[i]) = "disconnect"
          THEN PrefixCompleted(5)
          ELSE PrefixCompleted(PosOf(i) - 1)
    /\ \A i \in 1..Len(calls) :
          NameOf(calls[i]) = "disconnect" => i = Len(calls)

C9_Witness ==
    /\ Terminated
    /\ Count("disconnect") = 1
    /\ Count("connect") = 1
    /\ "InitLedger" \in Range(failed)

\* C10: when an accepted Transfer returns a result that JSON.parse rejects,
\* no later Transfer is submitted, the gateway is disconnected and the
\* process exits with status 1, although no submission rejected.
C10_UnparsableResultAbortsRun ==
    (TransfersAccepted >= 1 /\ ~JSONParses(result)) =>
        /\ pc \in {"finally", "catch", "exited"}
        /\ Len(TransfersIssued) = TransfersAccepted
        /\ "Transfer" \notin Range(failed)
        /\ "InitLedger" \notin Range(failed)
        /\ pc \in {"catch", "exited"} => Count("disconnect") = 1
        /\ Terminated => exitCode = 1

C10_Witness ==
    /\ Terminated
    /\ TransfersAccepted = 2
    /\ ~JSONParses(result)
    /\ failed = <<"prettyJSONString">>
    /\ Count("disconnect") = 1
    /\ exitCode = 1

=============================================================================
